---- MODULE Spec2Model ----
(***************************************************************************)
(* vtkSlicerFiducialRegistrationWizardLogic: the calibration recompute     *)
(* (UpdateCalibration) of one vtkMRMLFiducialRegistrationWizardNode and    *)
(* the observer callbacks that decide when it runs.                        *)
(*                                                                         *)
(* Every handler runs to completion, so each action is one whole handler.  *)
(* The variable "trace" is the list of the calls the last handler made, in *)
(* order; it is reset at the start of each handler.                        *)
(***************************************************************************)
EXTENDS Integers, Sequences, FiniteSets, TLC

VARIABLES
  fromList,                  \* GetFromFiducialListNode(): a markups list or NULL
  toList,                    \* GetToFiducialListNode(): a markups list or NULL
  outputClass,               \* GetOutputTransformNode(): class name, or "NULL"
  outputTransform,           \* the transform held by the output transform node
  RegistrationMode,          \* vtkMRMLFiducialRegistrationWizardNode::RegistrationMode
  UpdateMode,                \* vtkMRMLFiducialRegistrationWizardNode::UpdateMode
  CalibrationStatusMessage,  \* vtkMRMLFiducialRegistrationWizardNode::CalibrationStatusMessage
  observers,                 \* the logic's observations of the node's events
  returned,                  \* what the last handler returned to its caller
  trace                      \* calls made by the last handler, in order

vars == <<fromList, toList, outputClass, outputTransform, RegistrationMode,
          UpdateMode, CalibrationStatusMessage, observers, returned, trace>>

\* the logic observes the node's events
observed == observers > 0

----------------------------------------------------------------------------
(* Bounds and input sets *)

MaxLen == 4

\* two families of fiducial positions: a general one (its first three
\* points are not collinear) and a collinear one
GeneralPt(i) == << (i - 1) % 2, ((i - 1) \div 2) % 2, (i - 1) \div 4 >>
CollinearPt(i) == << i - 1, 0, 0 >>

PointLists ==
  { [i \in 1..n |-> GeneralPt(i)] : n \in 0..MaxLen } \cup
  { [i \in 1..n |-> CollinearPt(i)] : n \in 0..MaxLen }

NullList == [defined |-> FALSE, pts |-> << >>]
ListNode(pts) == [defined |-> TRUE, pts |-> pts]
ListNodes == { NullList } \cup { ListNode(pts) : pts \in PointLists }

LinearTransformNode == "vtkMRMLLinearTransformNode"
GeneralTransformNode == "vtkMRMLTransformNode"
OutputClasses == { "NULL", LinearTransformNode, GeneralTransformNode }

RegistrationModes == { "Rigid", "Similarity", "Warping", "Affine" }
UpdateModes == { "Manual", "Automatic", "automatic" }

\* the arguments a scene or a caller hands to a handler that takes a node
NodeArgs == { "NULL", "frwNode", "otherNode" }

ModifiedEvent == "ModifiedEvent"
InputDataModifiedEvent == "InputDataModifiedEvent"
Events == { ModifiedEvent, InputDataModifiedEvent }

----------------------------------------------------------------------------
(* The node and what the handlers see of it *)

Node == [ from |-> fromList, to |-> toList, outputClass |-> outputClass,
          outputTransform |-> outputTransform, mode |-> RegistrationMode,
          updateMode |-> UpdateMode, status |-> CalibrationStatusMessage,
          observers |-> observers, returned |-> << >>, trace |-> << >> ]

Log(s, call) == [s EXCEPT !.trace = Append(@, call)]

\* the transform a transform node holds before any recompute wrote one
NoTransform == [kind |-> "none", mode |-> "", source |-> << >>, target |-> << >>]

GetNumberOfFiducials(list) == Len(list.pts)

MarkupsFiducialNodeToVTKPoints(list) ==
  [i \in 1..GetNumberOfFiducials(list) |-> list.pts[i]]

\* the body of the check is commented out in the source: it returns false
CheckCollinear(points) == FALSE

----------------------------------------------------------------------------
(* Transform estimation and the registration error *)

Distance2BetweenPoints(p, q) ==
  (p[1] - q[1]) * (p[1] - q[1]) + (p[2] - q[2]) * (p[2] - q[2])
    + (p[3] - q[3]) * (p[3] - q[3])

\* vtkLandmarkTransform in rigid-body or similarity mode, after Update()
LandmarkTransform(mode, source, target) ==
  [kind |-> "matrix", mode |-> mode, source |-> source, target |-> target]

\* vtkThinPlateSplineTransform, after Update()
ThinPlateSplineTransform(source, target) ==
  [kind |-> "tps", mode |-> "Warping", source |-> source, target |-> target]

\* transform->TransformPoints: exact where the fit is exact (the spline at
\* its landmarks, the least-squares fit of a list onto itself), and otherwise
\* a point whose coordinates are not known to this model
TransformPoints(transform, points) ==
  [i \in 1..Len(points) |->
     IF /\ transform.kind = "tps"
        /\ \E j \in 1..Len(transform.source) :
             j <= Len(transform.target) /\ transform.source[j] = points[i]
     THEN LET j == CHOOSE k \in 1..Len(transform.source) :
                     k <= Len(transform.target) /\ transform.source[k] = points[i]
          IN [known |-> TRUE, p |-> transform.target[j]]
     ELSE IF /\ transform.kind = "matrix"
             /\ transform.source = transform.target
             /\ \E j \in 1..Len(transform.source) : transform.source[j] = points[i]
     THEN [known |-> TRUE, p |-> points[i]]
     ELSE [known |-> FALSE, p |-> points[i]]]

\* the matrix of the least-squares fit of a list of at least 3 points that
\* are not collinear onto itself: the fit is unique and is the identity
IsIdentityMatrix(transform) ==
  /\ transform.kind = "matrix"
  /\ transform.mode \in { "Rigid", "Similarity" }
  /\ transform.source = transform.target
  /\ \E i, j, k \in 1..Len(transform.source) :
       LET u == << transform.source[j][1] - transform.source[i][1],
                   transform.source[j][2] - transform.source[i][2],
                   transform.source[j][3] - transform.source[i][3] >>
           v == << transform.source[k][1] - transform.source[i][1],
                   transform.source[k][2] - transform.source[i][2],
                   transform.source[k][3] - transform.source[i][3] >>
       IN << u[2] * v[3] - u[3] * v[2], u[3] * v[1] - u[1] * v[3],
             u[1] * v[2] - u[2] * v[1] >> # << 0, 0, 0 >>

\* mutant: each To point is paired with the next transformed From point
RECURSIVE SumSquaredError_Mispaired(_, _, _)
SumSquaredError_Mispaired(toPoints, transformedFromPoints, i) ==
  IF i > Len(toPoints) THEN 0
  ELSE Distance2BetweenPoints(toPoints[i],
                              transformedFromPoints[(i % Len(toPoints)) + 1].p)
         + SumSquaredError_Mispaired(toPoints, transformedFromPoints, i + 1)

RECURSIVE SumSquaredError(_, _, _)
SumSquaredError(toPoints, transformedFromPoints, i) ==
  IF i > Len(toPoints) THEN 0
  ELSE Distance2BetweenPoints(toPoints[i], transformedFromPoints[i].p)
         + SumSquaredError(toPoints, transformedFromPoints, i + 1)

\* sqrt( sumSquaredError / n ), kept as the pair it is computed from
CalculateRegistrationError(fromPoints, toPoints, transform) ==
  LET transformedFromPoints == TransformPoints(transform, fromPoints)
      inRange == Len(toPoints) <= Len(transformedFromPoints)
      known == inRange /\ \A i \in 1..Len(toPoints) : transformedFromPoints[i].known
  IN [ known |-> known,
       sumSquaredError |->
         IF known THEN SumSquaredError(toPoints, transformedFromPoints, 1) ELSE 0,
       n |-> Len(toPoints),
       readPastEnd |-> ~inRange ]

----------------------------------------------------------------------------
(* Status messages *)

MsgFromNotDefined == << "'From' fiducial list is not defined." >>
MsgToNotDefined == << "'To' fiducial list is not defined." >>
MsgOutputNotDefined == << "Output transform is not defined." >>
MsgFromTooFew == << "'From' fiducial list has too few fiducials (minimum 3 required)." >>
MsgToTooFew == << "'To' fiducial list has too few fiducials (minimum 3 required)." >>
\* mutant: the two counts are streamed in the wrong order
MsgUnequal_Swapped(nFrom, nTo) ==
  << "Fiducial lists have unequal number of fiducials ('From' has ",
     ToString(nTo), ", 'To' has ", ToString(nFrom), ")." >>

MsgUnequal(nFrom, nTo) ==
  << "Fiducial lists have unequal number of fiducials ('From' has ",
     ToString(nFrom), ", 'To' has ", ToString(nTo), ")." >>
MsgFromCollinear == << "'From' fiducial list has strictly collinear points." >>
MsgToCollinear == << "'To' fiducial list has strictly collinear points." >>
MsgWarpingLinear == << "Warping transform cannot be stored\nin linear transform node" >>
MsgInvalidType == << "Invalid transform type." >>
SuccessPrefix == "Success! RMS Error: "
MsgSuccess(rmsError) == << SuccessPrefix, ToString(rmsError) >>

----------------------------------------------------------------------------
(* Handlers *)

RECURSIVE UpdateCalibration(_, _)
RECURSIVE ProcessMRMLNodesEvents(_, _, _)

\* the callback of the logic, once for each of the first n observations
RECURSIVE Deliver(_, _, _)
Deliver(s, event, n) ==
  IF n = 0 THEN s
  ELSE ProcessMRMLNodesEvents(Deliver(s, event, n - 1), "frwNode", event)

\* InvokeEvent on the node: the logic's callback runs for each observation
InvokeEvent(s, event) == Deliver(Log(s, event), event, s.observers)

\* mutant: the message is appended to the status the node already has
SetCalibrationStatusMessage_Append(s, msg) ==
  LET called == Log(s, "SetCalibrationStatusMessage")
  IN InvokeEvent([called EXCEPT !.status = @ \o msg], ModifiedEvent)

\* vtkSetMacro: assigns and calls Modified() only when the value changes
SetCalibrationStatusMessage(s, msg) ==
  LET called == Log(s, "SetCalibrationStatusMessage")
  IN IF called.status # msg
     THEN InvokeEvent([called EXCEPT !.status = msg], ModifiedEvent)
     ELSE called

SetMatrixTransformToParent(s, matrix) ==
  [Log(s, "SetMatrixTransformToParent") EXCEPT !.outputTransform = matrix]

SetAndObserveTransformToParent(s, transform) ==
  [Log(s, "SetAndObserveTransformToParent") EXCEPT !.outputTransform = transform]

NoFailure == << >>

\* mutant: the minimum of both count checks is 2 instead of 3
ValidationFailure_MinimumTwo(s) ==
  IF ~s.from.defined THEN MsgFromNotDefined
  ELSE IF ~s.to.defined THEN MsgToNotDefined
  ELSE IF s.outputClass = "NULL" THEN MsgOutputNotDefined
  ELSE IF GetNumberOfFiducials(s.from) < 2 THEN MsgFromTooFew
  ELSE IF GetNumberOfFiducials(s.to) < 2 THEN MsgToTooFew
  ELSE IF GetNumberOfFiducials(s.from) # GetNumberOfFiducials(s.to)
    THEN MsgUnequal(GetNumberOfFiducials(s.from), GetNumberOfFiducials(s.to))
  ELSE IF CheckCollinear(MarkupsFiducialNodeToVTKPoints(s.from)) THEN MsgFromCollinear
  ELSE IF CheckCollinear(MarkupsFiducialNodeToVTKPoints(s.to)) THEN MsgToCollinear
  ELSE NoFailure

\* mutant: the two counts are not compared with each other
ValidationFailure_NoCountCompare(s) ==
  IF ~s.from.defined THEN MsgFromNotDefined
  ELSE IF ~s.to.defined THEN MsgToNotDefined
  ELSE IF s.outputClass = "NULL" THEN MsgOutputNotDefined
  ELSE IF GetNumberOfFiducials(s.from) < 3 THEN MsgFromTooFew
  ELSE IF GetNumberOfFiducials(s.to) < 3 THEN MsgToTooFew
  ELSE IF CheckCollinear(MarkupsFiducialNodeToVTKPoints(s.from)) THEN MsgFromCollinear
  ELSE IF CheckCollinear(MarkupsFiducialNodeToVTKPoints(s.to)) THEN MsgToCollinear
  ELSE NoFailure

\* the presence, count and degeneracy checks, in the order of the source
ValidationFailure(s) ==
  IF ~s.from.defined THEN MsgFromNotDefined
  ELSE IF ~s.to.defined THEN MsgToNotDefined
  ELSE IF s.outputClass = "NULL" THEN MsgOutputNotDefined
  ELSE IF GetNumberOfFiducials(s.from) < 3 THEN MsgFromTooFew
  ELSE IF GetNumberOfFiducials(s.to) < 3 THEN MsgToTooFew
  ELSE IF GetNumberOfFiducials(s.from) # GetNumberOfFiducials(s.to)
    THEN MsgUnequal(GetNumberOfFiducials(s.from), GetNumberOfFiducials(s.to))
  ELSE IF CheckCollinear(MarkupsFiducialNodeToVTKPoints(s.from)) THEN MsgFromCollinear
  ELSE IF CheckCollinear(MarkupsFiducialNodeToVTKPoints(s.to)) THEN MsgToCollinear
  ELSE NoFailure

\* the rms error of the transform just written, then the success status
ReportSuccess(s, fromPoints, toPoints) ==
  SetCalibrationStatusMessage(
    Log(s, "CalculateRegistrationError"),
    MsgSuccess(CalculateRegistrationError(fromPoints, toPoints, s.outputTransform)))

\* mutant: the landmark branch builds and stores a spline, like the Warping one
RegisterLandmarks_AsSpline(s, fromPoints, toPoints) ==
  ReportSuccess(
    SetAndObserveTransformToParent(Log(s, "vtkThinPlateSplineTransform::New"),
                                   ThinPlateSplineTransform(fromPoints, toPoints)),
    fromPoints, toPoints)

\* transformType is "Rigid" or "Similarity"
RegisterLandmarks(s, fromPoints, toPoints) ==
  ReportSuccess(
    SetMatrixTransformToParent(Log(s, "vtkLandmarkTransform::New"),
                               LandmarkTransform(s.mode, fromPoints, toPoints)),
    fromPoints, toPoints)

\* mutant: the class of the output node is not looked at
RegisterWarping_NoClassCheck(s, fromPoints, toPoints) ==
  ReportSuccess(
    SetAndObserveTransformToParent(Log(s, "vtkThinPlateSplineTransform::New"),
                                   ThinPlateSplineTransform(fromPoints, toPoints)),
    fromPoints, toPoints)

\* mutant: the spline is stored first and the class of the output node is
\* looked at afterwards
RegisterWarping_WriteBeforeCheck(s, fromPoints, toPoints) ==
  LET written == SetAndObserveTransformToParent(
                   Log(s, "vtkThinPlateSplineTransform::New"),
                   ThinPlateSplineTransform(fromPoints, toPoints))
  IN IF s.outputClass # GeneralTransformNode
     THEN SetCalibrationStatusMessage(Log(written, "vtkErrorMacro"), MsgWarpingLinear)
     ELSE ReportSuccess(written, fromPoints, toPoints)

\* transformType is "Warping"
RegisterWarping(s, fromPoints, toPoints) ==
  IF s.outputClass # GeneralTransformNode
  THEN SetCalibrationStatusMessage(Log(s, "vtkErrorMacro"), MsgWarpingLinear)
  ELSE ReportSuccess(
         SetAndObserveTransformToParent(Log(s, "vtkThinPlateSplineTransform::New"),
                                        ThinPlateSplineTransform(fromPoints, toPoints)),
         fromPoints, toPoints)

\* mutant: the invalid-mode path logs the error and returns without a status
UpdateCalibration_InvalidTypeSilent(s0, node) ==
  LET s == Log(s0, "UpdateCalibration")
      fromPoints == MarkupsFiducialNodeToVTKPoints(s.from)
      toPoints == MarkupsFiducialNodeToVTKPoints(s.to)
  IN IF node # "frwNode" THEN Log(s, "UpdateCalibration: input node is invalid")
     ELSE IF ValidationFailure(s) # NoFailure
     THEN SetCalibrationStatusMessage(s, ValidationFailure(s))
     ELSE IF s.mode = "Rigid" \/ s.mode = "Similarity"
     THEN RegisterLandmarks(s, fromPoints, toPoints)
     ELSE IF s.mode = "Warping"
     THEN RegisterWarping(s, fromPoints, toPoints)
     ELSE Log(s, "vtkErrorMacro")

\* mutant: every mode that is not "Rigid" or "Warping" is taken as a similarity
UpdateCalibration_DefaultSimilarity(s0, node) ==
  LET s == Log(s0, "UpdateCalibration")
      fromPoints == MarkupsFiducialNodeToVTKPoints(s.from)
      toPoints == MarkupsFiducialNodeToVTKPoints(s.to)
  IN IF node # "frwNode" THEN Log(s, "UpdateCalibration: input node is invalid")
     ELSE IF ValidationFailure(s) # NoFailure
     THEN SetCalibrationStatusMessage(s, ValidationFailure(s))
     ELSE IF s.mode = "Warping"
     THEN RegisterWarping(s, fromPoints, toPoints)
     ELSE RegisterLandmarks(s, fromPoints, toPoints)

\* mutant: a mode that is not valid is replaced by "Rigid" in the node
UpdateCalibration_ResetsMode(s0, node) ==
  LET s == Log(s0, "UpdateCalibration")
      fromPoints == MarkupsFiducialNodeToVTKPoints(s.from)
      toPoints == MarkupsFiducialNodeToVTKPoints(s.to)
  IN IF node # "frwNode" THEN Log(s, "UpdateCalibration: input node is invalid")
     ELSE IF ValidationFailure(s) # NoFailure
     THEN SetCalibrationStatusMessage(s, ValidationFailure(s))
     ELSE IF s.mode = "Rigid" \/ s.mode = "Similarity"
     THEN RegisterLandmarks(s, fromPoints, toPoints)
     ELSE IF s.mode = "Warping"
     THEN RegisterWarping(s, fromPoints, toPoints)
     ELSE SetCalibrationStatusMessage(
            [Log(s, "vtkErrorMacro") EXCEPT !.mode = "Rigid"], MsgInvalidType)

UpdateCalibration(s0, node) ==
  LET s == Log(s0, "UpdateCalibration")
      fromPoints == MarkupsFiducialNodeToVTKPoints(s.from)
      toPoints == MarkupsFiducialNodeToVTKPoints(s.to)
  IN IF node # "frwNode" THEN Log(s, "UpdateCalibration: input node is invalid")
     ELSE IF ValidationFailure(s) # NoFailure
     THEN SetCalibrationStatusMessage(s, ValidationFailure(s))
     ELSE IF s.mode = "Rigid" \/ s.mode = "Similarity"
     THEN RegisterLandmarks(s, fromPoints, toPoints)
     ELSE IF s.mode = "Warping"
     THEN RegisterWarping(s, fromPoints, toPoints)
     ELSE SetCalibrationStatusMessage(Log(s, "vtkErrorMacro"), MsgInvalidType)

\* mutant: every event of the node recomputes in Automatic mode
ProcessMRMLNodesEvents_AnyEvent(s0, caller, event) ==
  LET s == Log(s0, "ProcessMRMLNodesEvents")
  IN IF caller # "frwNode" THEN s
     ELSE IF s.updateMode = "Automatic"
     THEN UpdateCalibration(s, caller)
     ELSE s

\* mutant: the result of strcmp is used as the condition, without "== 0"
ProcessMRMLNodesEvents_InvertedCompare(s0, caller, event) ==
  LET s == Log(s0, "ProcessMRMLNodesEvents")
  IN IF caller # "frwNode" THEN s
     ELSE IF event = InputDataModifiedEvent /\ s.updateMode # "Automatic"
     THEN UpdateCalibration(s, caller)
     ELSE s

ProcessMRMLNodesEvents(s0, caller, event) ==
  LET s == Log(s0, "ProcessMRMLNodesEvents")
  IN IF caller # "frwNode" THEN s
     ELSE IF event = InputDataModifiedEvent /\ s.updateMode = "Automatic"
     THEN UpdateCalibration(s, caller)
     ELSE s

vtkUnObserveMRMLNodeMacro(s) == [s EXCEPT !.observers = 0]
vtkObserveMRMLNodeEventsMacro(s) == [s EXCEPT !.observers = @ + 1]

\* the debug messages of the two branches that handle a configuration node
ModuleNodeAdded == "vtkDebugMacro: OnMRMLSceneNodeAdded: Module node added."
ModuleNodeRemoved == "vtkDebugMacro: OnMRMLSceneNodeRemoved"

\* mutant: the update mode is not looked at when a node is added
OnMRMLSceneNodeAdded_AlwaysRecompute(s0, node) ==
  LET s == Log(s0, "OnMRMLSceneNodeAdded")
  IN IF node = "NULL" THEN Log(s, "OnMRMLSceneNodeAdded: Invalid MRML scene or node")
     ELSE IF node = "frwNode"
     THEN UpdateCalibration(
            vtkObserveMRMLNodeEventsMacro(
              vtkUnObserveMRMLNodeMacro(Log(s, ModuleNodeAdded))), node)
     ELSE s

\* mutant: the previous observers of the added node are kept
OnMRMLSceneNodeAdded_KeepsObservers(s0, node) ==
  LET s == Log(s0, "OnMRMLSceneNodeAdded")
  IN IF node = "NULL" THEN Log(s, "OnMRMLSceneNodeAdded: Invalid MRML scene or node")
     ELSE IF node = "frwNode"
     THEN LET watching == vtkObserveMRMLNodeEventsMacro(Log(s, ModuleNodeAdded))
          IN IF watching.updateMode = "Automatic"
             THEN UpdateCalibration(watching, node)
             ELSE watching
     ELSE s

\* mutant: the added node is observed, and never recomputed at once
OnMRMLSceneNodeAdded_NoInitialUpdate(s0, node) ==
  LET s == Log(s0, "OnMRMLSceneNodeAdded")
  IN IF node = "NULL" THEN Log(s, "OnMRMLSceneNodeAdded: Invalid MRML scene or node")
     ELSE IF node = "frwNode"
     THEN vtkObserveMRMLNodeEventsMacro(
            vtkUnObserveMRMLNodeMacro(Log(s, ModuleNodeAdded)))
     ELSE s

OnMRMLSceneNodeAdded(s0, node) ==
  LET s == Log(s0, "OnMRMLSceneNodeAdded")
  IN IF node = "NULL" THEN Log(s, "OnMRMLSceneNodeAdded: Invalid MRML scene or node")
     ELSE IF node = "frwNode"
     THEN LET watching == vtkObserveMRMLNodeEventsMacro(
                            vtkUnObserveMRMLNodeMacro(Log(s, ModuleNodeAdded)))
          IN IF watching.updateMode = "Automatic"
             THEN UpdateCalibration(watching, node)
             ELSE watching
     ELSE s

OnMRMLSceneNodeRemoved(s0, node) ==
  LET s == Log(s0, "OnMRMLSceneNodeRemoved")
  IN IF node = "NULL" THEN Log(s, "OnMRMLSceneNodeRemoved: Invalid MRML scene or node")
     ELSE IF node = "frwNode"
     THEN vtkUnObserveMRMLNodeMacro(Log(s, ModuleNodeRemoved))
     ELSE s

\* mutant: the status of the node that was found is not read
GetOutputMessage_AlwaysEmpty(s0, node) ==
  LET s == Log(s0, "GetOutputMessage")
  IN IF node # "frwNode"
     THEN [Log(s, "GetOutputMessage failed: node not found") EXCEPT !.returned = << >>]
     ELSE [s EXCEPT !.returned = << >>]

\* node is what GetNodeByID( nodeID ) found in the scene
GetOutputMessage(s0, node) ==
  LET s == Log(s0, "GetOutputMessage")
  IN IF node # "frwNode"
     THEN [Log(s, "GetOutputMessage failed: node not found") EXCEPT !.returned = << >>]
     ELSE [s EXCEPT !.returned = s.status]

----------------------------------------------------------------------------
(* Actions *)

\* what a handler leaves behind
Becomes(s) ==
  /\ fromList' = s.from
  /\ toList' = s.to
  /\ outputClass' = s.outputClass
  /\ outputTransform' = s.outputTransform
  /\ RegistrationMode' = s.mode
  /\ UpdateMode' = s.updateMode
  /\ CalibrationStatusMessage' = s.status
  /\ observers' = s.observers
  /\ returned' = s.returned
  /\ trace' = s.trace

TypeOK ==
  /\ fromList \in ListNodes
  /\ toList \in ListNodes
  /\ outputClass \in OutputClasses
  /\ RegistrationMode \in RegistrationModes
  /\ UpdateMode \in UpdateModes
  /\ observers \in 0..1

Init ==
  /\ fromList \in ListNodes
  /\ toList \in ListNodes
  /\ outputClass \in OutputClasses
  /\ outputTransform = NoTransform
  /\ RegistrationMode \in RegistrationModes
  /\ UpdateMode \in UpdateModes
  /\ CalibrationStatusMessage = << >>
  /\ observers = 0
  /\ returned = << >>
  /\ trace = << >>

\* an explicit "recompute now" call
CallUpdateCalibration == \E node \in NodeArgs : Becomes(UpdateCalibration(Node, node))

NodeAdded == \E node \in NodeArgs : Becomes(OnMRMLSceneNodeAdded(Node, node))

NodeRemoved == \E node \in NodeArgs : Becomes(OnMRMLSceneNodeRemoved(Node, node))

\* the node invokes one of its events (an input or any field changed)
NodeInvokesEvent == \E event \in Events : Becomes(InvokeEvent(Node, event))

CallGetOutputMessage == \E node \in NodeArgs : Becomes(GetOutputMessage(Node, node))

\* another observed object calls the logic back
OtherInvokesEvent ==
  \E event \in Events : Becomes(ProcessMRMLNodesEvents(Node, "otherNode", event))

\* the setters of the node: the events the node raises after a change are
\* the steps of NodeInvokesEvent
SetRegistrationMode ==
  \E m \in RegistrationModes :
    Becomes([Log(Node, "SetRegistrationMode") EXCEPT !.mode = m])

SetUpdateMode ==
  \E m \in UpdateModes :
    Becomes([Log(Node, "SetUpdateMode") EXCEPT !.updateMode = m])

Next ==
  \/ CallUpdateCalibration
  \/ NodeAdded
  \/ NodeRemoved
  \/ NodeInvokesEvent
  \/ OtherInvokesEvent
  \/ SetRegistrationMode
  \/ SetUpdateMode
  \/ CallGetOutputMessage

Spec == Init /\ [][Next]_vars

----------------------------------------------------------------------------
(* A second specification: the lists of the node are replaced between
   explicit recomputes, so that a request that succeeded can fail later in
   its validation. The lists are of the general family only, and the node is
   not observed and stays in Manual mode. *)

EditedListNodes ==
  { NullList } \cup { ListNode([i \in 1..n |-> GeneralPt(i)]) : n \in 0..MaxLen }

InitLists ==
  /\ fromList \in EditedListNodes
  /\ toList \in EditedListNodes
  /\ outputClass \in OutputClasses
  /\ outputTransform = NoTransform
  /\ RegistrationMode \in RegistrationModes
  /\ UpdateMode = "Manual"
  /\ CalibrationStatusMessage = << >>
  /\ observers = 0
  /\ returned = << >>
  /\ trace = << >>

SetAndObserveFromFiducialListNodeId ==
  \E list \in EditedListNodes :
    Becomes([Log(Node, "SetAndObserveFromFiducialListNodeId") EXCEPT !.from = list])

SetAndObserveToFiducialListNodeId ==
  \E list \in EditedListNodes :
    Becomes([Log(Node, "SetAndObserveToFiducialListNodeId") EXCEPT !.to = list])

NextLists ==
  \/ SetAndObserveFromFiducialListNodeId
  \/ SetAndObserveToFiducialListNodeId
  \/ SetRegistrationMode
  \/ CallUpdateCalibration

SpecLists == InitLists /\ [][NextLists]_vars

----------------------------------------------------------------------------
(* AddFiducial, and a third specification: the two lists of the node start
   empty or undefined and grow by the fiducials that AddFiducial places at
   the position of the probe, between explicit recomputes. *)

\* the most fiducials a list grows to
MaxFiducials == 3

\* the positions the probe is placed at
ProbePositions == { << 0, 0, 0 >>, << 1, 0, 0 >> }

\* a probe transform node is NULL or holds the pose of the probe, of which
\* AddFiducial reads the translation column
NullProbe == [defined |-> FALSE, position |-> << 0, 0, 0 >>]
ProbeTransformNodes ==
  { NullProbe } \cup { [defined |-> TRUE, position |-> p] : p \in ProbePositions }

\* the lists a caller can name: the two of the node, or none
FiducialNodeArgs == { "from", "to", "NULL" }

\* the pointer a reference to one of the lists of the node resolves to
GetNodeByID(s, id) ==
  IF id = "from" /\ s.from.defined THEN "from"
  ELSE IF id = "to" /\ s.to.defined THEN "to"
  ELSE "NULL"

ProbeArgument(probeTransformNode) ==
  IF probeTransformNode.defined THEN "probeTransformNode: valid"
  ELSE "probeTransformNode: NULL"

FiducialNodeArgument(fiducialNode) == "fiducialNode: " \o fiducialNode

\* mutant: the new fiducial becomes the first of the list
AddFiducialFromArray_Prepend(s, fiducialNode, coord) ==
  IF fiducialNode = "from"
  THEN [Log(s, "AddFiducialFromArray") EXCEPT !.from.pts = << coord >> \o @]
  ELSE [Log(s, "AddFiducialFromArray") EXCEPT !.to.pts = << coord >> \o @]

\* vtkMRMLMarkupsFiducialNode::AddFiducialFromArray: one more fiducial, last
AddFiducialFromArray(s, fiducialNode, coord) ==
  IF fiducialNode = "from"
  THEN [Log(s, "AddFiducialFromArray") EXCEPT !.from.pts = Append(@, coord)]
  ELSE [Log(s, "AddFiducialFromArray") EXCEPT !.to.pts = Append(@, coord)]

InvalidTransform == "AddFiducial failed: input transform is invalid"
InvalidFiducialNode == "AddFiducial failed: output fiducial node is invalid"
NoActiveList == "AddFiducial failed: no active markup list is found"

\* AddFiducial( probeTransformNode, fiducialNode )
AddFiducial(s0, probeTransformNode, fiducialNode) ==
  LET s == Log(Log(Log(s0, "AddFiducial"), ProbeArgument(probeTransformNode)),
               FiducialNodeArgument(fiducialNode))
  IN IF ~probeTransformNode.defined THEN Log(s, InvalidTransform)
     ELSE IF fiducialNode = "NULL" THEN Log(s, InvalidFiducialNode)
     ELSE AddFiducialFromArray(s, fiducialNode, probeTransformNode.position)

\* AddFiducial( probeTransformNode ): the fiducial goes to the active list
AddFiducialToActiveList(s0, probeTransformNode, activeListID) ==
  LET s == Log(Log(s0, "AddFiducial"), ProbeArgument(probeTransformNode))
  IN IF ~probeTransformNode.defined THEN Log(s, InvalidTransform)
     ELSE IF GetNodeByID(s, activeListID) = "NULL" THEN Log(s, NoActiveList)
     ELSE AddFiducial(s, probeTransformNode, GetNodeByID(s, activeListID))

\* the list a call would append to has room for one more fiducial
HasRoom(fiducialNode) ==
  /\ fiducialNode = "from" => GetNumberOfFiducials(fromList) < MaxFiducials
  /\ fiducialNode = "to" => GetNumberOfFiducials(toList) < MaxFiducials

InitFiducials ==
  /\ fromList \in { NullList, ListNode(<< >>) }
  /\ toList \in { NullList, ListNode(<< >>) }
  /\ outputClass = LinearTransformNode
  /\ outputTransform = NoTransform
  /\ RegistrationMode = "Rigid"
  /\ UpdateMode = "Manual"
  /\ CalibrationStatusMessage = << >>
  /\ observers = 0
  /\ returned = << >>
  /\ trace = << >>

CallAddFiducial ==
  \E probeTransformNode \in ProbeTransformNodes, fiducialNode \in FiducialNodeArgs :
    /\ HasRoom(GetNodeByID(Node, fiducialNode))
    /\ Becomes(AddFiducial(Node, probeTransformNode, GetNodeByID(Node, fiducialNode)))

CallAddFiducialToActiveList ==
  \E probeTransformNode \in ProbeTransformNodes, activeListID \in FiducialNodeArgs :
    /\ HasRoom(GetNodeByID(Node, activeListID))
    /\ Becomes(AddFiducialToActiveList(Node, probeTransformNode, activeListID))

NextFiducials ==
  \/ CallAddFiducial
  \/ CallAddFiducialToActiveList
  \/ CallUpdateCalibration

SpecFiducials == InitFiducials /\ [][NextFiducials]_vars

----------------------------------------------------------------------------
(* What the properties below speak about *)

Count(seq, x) == Cardinality({ i \in 1..Len(seq) : seq[i] = x })
Position(seq, x) == CHOOSE i \in 1..Len(seq) : seq[i] = x

\* the last handler ran UpdateCalibration on the configuration node
Recomputed ==
  /\ Count(trace, "UpdateCalibration") >= 1
  /\ Count(trace, "UpdateCalibration: input node is invalid") = 0

\* the last handler was a notification: a node added to the scene, or an
\* event delivered to the logic's callback
Notified ==
  /\ trace # << >>
  /\ trace[1] \in { "OnMRMLSceneNodeAdded", ModifiedEvent, InputDataModifiedEvent,
                    "ProcessMRMLNodesEvents" }

Cross(u, v) == << u[2] * v[3] - u[3] * v[2], u[3] * v[1] - u[1] * v[3],
                  u[1] * v[2] - u[2] * v[1] >>
Diff(p, q) == << p[1] - q[1], p[2] - q[2], p[3] - q[3] >>

\* the points span at most a line (this includes fewer than three points)
IsCollinear(points) ==
  \A i, j \in 1..Len(points) :
    Cross(Diff(points[i], points[1]), Diff(points[j], points[1])) = << 0, 0, 0 >>

FromCount == Len(fromList.pts)
ToCount == Len(toList.pts)
Succeeded == CalibrationStatusMessage # << >> /\ CalibrationStatusMessage[1] = SuccessPrefix
OutputWrites ==
  Count(trace, "SetMatrixTransformToParent") + Count(trace, "SetAndObserveTransformToParent")

AllDefined == fromList.defined /\ toList.defined /\ outputClass # "NULL"
StatusSets == Count(trace, "SetCalibrationStatusMessage")

----------------------------------------------------------------------------
(* C1 *)

\* the nine conditions of the validation order that fail on the current request
FailingChecks ==
  { k \in 1..9 :
      \/ k = 1 /\ ~fromList.defined
      \/ k = 2 /\ ~toList.defined
      \/ k = 3 /\ outputClass = "NULL"
      \/ k = 4 /\ FromCount < 3
      \/ k = 5 /\ ToCount < 3
      \/ k = 6 /\ FromCount # ToCount
      \/ k = 7 /\ IsCollinear(fromList.pts)
      \/ k = 8 /\ IsCollinear(toList.pts)
      \/ k = 9 /\ RegistrationMode = "Warping" /\ outputClass # GeneralTransformNode }

CheckMessage(k) ==
  CASE k = 1 -> << "'From' fiducial list is not defined." >>
    [] k = 2 -> << "'To' fiducial list is not defined." >>
    [] k = 3 -> << "Output transform is not defined." >>
    [] k = 4 -> << "'From' fiducial list has too few fiducials (minimum 3 required)." >>
    [] k = 5 -> << "'To' fiducial list has too few fiducials (minimum 3 required)." >>
    [] k = 6 -> << "Fiducial lists have unequal number of fiducials ('From' has ",
                   ToString(FromCount), ", 'To' has ", ToString(ToCount), ")." >>
    [] k = 7 -> << "'From' fiducial list has strictly collinear points." >>
    [] k = 8 -> << "'To' fiducial list has strictly collinear points." >>
    [] k = 9 -> << "Warping transform cannot be stored\nin linear transform node" >>

\* C1: after a recompute of a request on which at least one of the nine
\* conditions (From missing, To missing, output missing, From < 3, To < 3,
\* counts differ, From degenerate, To degenerate, Warping into a linear-only
\* output) fails, the status is the message of the earliest failing one and
\* it is the only status message the recompute produced.
C1_FirstFailingCheckWins ==
  (Recomputed /\ FailingChecks # {}) =>
    /\ CalibrationStatusMessage =
         CheckMessage(CHOOSE k \in FailingChecks : \A l \in FailingChecks : k <= l)
    /\ StatusSets = 1

----------------------------------------------------------------------------
(* C2 *)

\* C2: within one handler no UpdateCalibration follows a ModifiedEvent of the
\* node, whatever the update mode, and a handler runs at most one
\* UpdateCalibration: the recompute's own status write starts no recompute.
C2_ModifiedEventNeverRecomputes ==
  /\ \A i, j \in 1..Len(trace) :
       (i < j /\ trace[i] = ModifiedEvent) => trace[j] # "UpdateCalibration"
  /\ Count(trace, "UpdateCalibration") <= 1

\* an automatic recompute wrote the status and the logic's callback received
\* the ModifiedEvent of that write
C2_Witness ==
  /\ UpdateMode = "Automatic"
  /\ Len(trace) >= 2
  /\ trace[1] = InputDataModifiedEvent
  /\ Recomputed
  /\ Count(trace, ModifiedEvent) = 1
  /\ trace[Len(trace)] = "ProcessMRMLNodesEvents"
  /\ trace[Len(trace) - 1] = ModifiedEvent

----------------------------------------------------------------------------
(* C3 *)

\* C3: when the last handler was the delivery of an InputDataModifiedEvent to
\* the logic observing the node in Automatic mode, it ran UpdateCalibration
\* exactly once, that call set the status, and the status is the one a
\* recompute of the node's current inputs gives.
C3_AutomaticInputChangeRecomputesOnce ==
  (/\ trace # << >>
   /\ trace[1] = InputDataModifiedEvent
   /\ observed
   /\ UpdateMode = "Automatic") =>
    /\ Count(trace, "UpdateCalibration") = 1
    /\ Recomputed
    /\ StatusSets = 1
    /\ Position(trace, "UpdateCalibration") < Position(trace, "SetCalibrationStatusMessage")
    /\ CalibrationStatusMessage = UpdateCalibration(Node, "frwNode").status
    /\ CalibrationStatusMessage # << >>

\* an InputDataModifiedEvent in Automatic mode changed the status of the
\* node to a success status
C3_Witness ==
  /\ trace # << >>
  /\ trace[1] = InputDataModifiedEvent
  /\ observed
  /\ UpdateMode = "Automatic"
  /\ Succeeded
  /\ Count(trace, ModifiedEvent) = 1

----------------------------------------------------------------------------
(* C4 *)

\* C4: a notification (node added, InputDataModifiedEvent, ModifiedEvent)
\* handled while the update mode is not exactly "Automatic" runs no
\* UpdateCalibration and leaves the status message and the output transform
\* as they were.
C4_ManualNeverRecomputes ==
  [][ (UpdateMode # "Automatic" /\ Notified') =>
        /\ Count(trace', "UpdateCalibration") = 0
        /\ CalibrationStatusMessage' = CalibrationStatusMessage
        /\ outputTransform' = outputTransform ]_vars

\* an InputDataModifiedEvent reached the logic's callback in mode "automatic"
\* on a node that holds the result of an earlier explicit recompute
C4_Witness ==
  /\ UpdateMode = "automatic"
  /\ observed
  /\ trace = << InputDataModifiedEvent, "ProcessMRMLNodesEvents" >>
  /\ Succeeded
  /\ outputTransform.kind # "none"

----------------------------------------------------------------------------
(* C5 *)

FailureMessages ==
  { MsgFromNotDefined, MsgToNotDefined, MsgOutputNotDefined, MsgFromTooFew,
    MsgToTooFew, MsgFromCollinear, MsgToCollinear, MsgWarpingLinear,
    MsgInvalidType,
    << "Fiducial lists have unequal number of fiducials ('From' has ",
       ToString(FromCount), ", 'To' has ", ToString(ToCount), ")." >> }

\* C5: every UpdateCalibration on the configuration node calls
\* SetCalibrationStatusMessage exactly once, after it started, and leaves
\* either one of the failure messages or a message that begins
\* "Success! RMS Error: ".
C5_StatusAlwaysSet ==
  Recomputed =>
    /\ StatusSets = 1
    /\ Position(trace, "UpdateCalibration") < Position(trace, "SetCalibrationStatusMessage")
    /\ \/ CalibrationStatusMessage \in FailureMessages
       \/ /\ Len(CalibrationStatusMessage) = 2
          /\ CalibrationStatusMessage[1] = "Success! RMS Error: "

\* a recompute ended on the invalid-mode path, which sets the status last
C5_Witness ==
  /\ Recomputed
  /\ AllDefined
  /\ RegistrationMode = "Affine"
  /\ CalibrationStatusMessage = << "Invalid transform type." >>

----------------------------------------------------------------------------
(* C6 *)

ValidRequest ==
  /\ AllDefined
  /\ FromCount = ToCount
  /\ FromCount >= 3
  /\ ~IsCollinear(fromList.pts)
  /\ ~IsCollinear(toList.pts)
  /\ RegistrationMode \in { "Rigid", "Similarity", "Warping" }
  /\ RegistrationMode = "Warping" => outputClass = GeneralTransformNode

WrittenBeforeStatus ==
  /\ OutputWrites = 1
  /\ \E i, j \in 1..Len(trace) :
       /\ i < j
       /\ trace[i] \in { "SetMatrixTransformToParent", "SetAndObserveTransformToParent" }
       /\ trace[j] = "SetCalibrationStatusMessage"

\* C6: after a recompute the status begins "Success!" exactly when From, To
\* and output are defined, the counts are equal and at least 3, neither list
\* is degenerate, the mode is Rigid, Similarity or Warping, and Warping has a
\* general output; and exactly then the output was written in that call,
\* before the status.
C6_SuccessIffValid ==
  Recomputed =>
    /\ Succeeded <=> ValidRequest
    /\ ValidRequest <=> WrittenBeforeStatus

----------------------------------------------------------------------------
(* C7 *)

\* C7: a recompute with a collinear From list and a valid To list of the same
\* size, a defined output and a valid mode ends with the From
\* degenerate-geometry status and writes no output; likewise for a collinear
\* To list with a non-degenerate From list.
C7_CollinearIsRejected ==
  (/\ Recomputed
   /\ AllDefined
   /\ FromCount = ToCount
   /\ FromCount >= 3
   /\ RegistrationMode \in { "Rigid", "Similarity", "Warping" }) =>
    /\ (IsCollinear(fromList.pts) /\ ~IsCollinear(toList.pts)) =>
         /\ CalibrationStatusMessage =
              << "'From' fiducial list has strictly collinear points." >>
         /\ OutputWrites = 0
    /\ (~IsCollinear(fromList.pts) /\ IsCollinear(toList.pts)) =>
         /\ CalibrationStatusMessage =
              << "'To' fiducial list has strictly collinear points." >>
         /\ OutputWrites = 0

----------------------------------------------------------------------------
(* C8 *)

\* C8: after a recompute with From, To and output defined, fewer than 3 From
\* points give the 'From' too-few status whatever the To count, at least 3
\* From points with fewer than 3 To points give the 'To' too-few status, and
\* 2 and 2 points never give a success.
C8_TooFewFiducials ==
  (Recomputed /\ AllDefined) =>
    /\ FromCount < 3 =>
         CalibrationStatusMessage =
           << "'From' fiducial list has too few fiducials (minimum 3 required)." >>
    /\ (FromCount >= 3 /\ ToCount < 3) =>
         CalibrationStatusMessage =
           << "'To' fiducial list has too few fiducials (minimum 3 required)." >>
    /\ (FromCount < 3 \/ ToCount < 3) => (~Succeeded /\ OutputWrites = 0)

\* a recompute of two From points against two To points
C8_Witness ==
  /\ Recomputed
  /\ AllDefined
  /\ FromCount = 2
  /\ ToCount = 2
  /\ StatusSets = 1

----------------------------------------------------------------------------
(* C9 *)

IsUnequalMessage(msg) ==
  /\ Len(msg) = 5
  /\ msg[1] = "Fiducial lists have unequal number of fiducials ('From' has "
  /\ msg[3] = ", 'To' has "
  /\ msg[5] = ")."

\* C9: after a recompute the status is the count-mismatch message exactly
\* when From, To and output are defined, both lists hold at least 3 points
\* and the counts differ; the message then names the From count first and the
\* To count second.
C9_CountMismatch ==
  Recomputed =>
    /\ IsUnequalMessage(CalibrationStatusMessage) <=>
         (AllDefined /\ FromCount >= 3 /\ ToCount >= 3 /\ FromCount # ToCount)
    /\ IsUnequalMessage(CalibrationStatusMessage) =>
         /\ CalibrationStatusMessage[2] = ToString(FromCount)
         /\ CalibrationStatusMessage[4] = ToString(ToCount)

\* a recompute of 3 From points against 4 To points
C9_Witness ==
  /\ Recomputed
  /\ AllDefined
  /\ FromCount = 3
  /\ ToCount = 4
  /\ CalibrationStatusMessage[2] = "3"
  /\ CalibrationStatusMessage[4] = "4"

----------------------------------------------------------------------------
(* C10 *)

WarpingIntoLinear ==
  /\ Recomputed
  /\ fromList.defined
  /\ toList.defined
  /\ FromCount = ToCount
  /\ FromCount >= 3
  /\ ~IsCollinear(fromList.pts)
  /\ ~IsCollinear(toList.pts)
  /\ RegistrationMode = "Warping"
  /\ outputClass = LinearTransformNode

NoWarpingWritten ==
  /\ Count(trace, "vtkThinPlateSplineTransform::New") = 0
  /\ OutputWrites = 0

\* C10 as stated: the status of a Warping recompute into a linear-only output
\* is "Warping transform cannot be stored in linear transform node" on one
\* line; no spline is built and nothing is written.
C10_WarpingStatusOnOneLine ==
  /\ WarpingIntoLinear =>
       /\ CalibrationStatusMessage =
            << "Warping transform cannot be stored in linear transform node" >>
       /\ NoWarpingWritten
  /\ outputClass = LinearTransformNode => outputTransform.kind # "tps"

\* C10, amended: a Warping recompute of otherwise valid inputs into a
\* linear-only output sets the status "Warping transform cannot be stored",
\* a line break, "in linear transform node", builds no thin-plate spline and
\* writes nothing to the output; a linear-only output never holds a spline.
C10_WarpingIntoLinearFails ==
  /\ WarpingIntoLinear =>
       /\ CalibrationStatusMessage =
            << "Warping transform cannot be stored\nin linear transform node" >>
       /\ NoWarpingWritten
  /\ outputClass = LinearTransformNode => outputTransform.kind # "tps"

\* a Warping recompute into a linear-only output that holds the matrix of an
\* earlier Rigid or Similarity recompute
C10_Witness ==
  /\ WarpingIntoLinear
  /\ outputTransform.kind = "matrix"
  /\ StatusSets = 1

----------------------------------------------------------------------------
(* C11 *)

\* C11: a recompute that wrote the output did so once, in a valid mode, and
\* wrote the kind of its mode: in Rigid and Similarity mode the matrix of the
\* landmark fit in that mode, by SetMatrixTransformToParent, into a linear or
\* a general output; in Warping mode a thin-plate spline, by
\* SetAndObserveTransformToParent, into a general output only. A recompute
\* that succeeded wrote the output.
C11_KindFollowsMode ==
  Recomputed =>
    /\ Succeeded => OutputWrites = 1
    /\ OutputWrites >= 1 =>
         /\ OutputWrites = 1
         /\ RegistrationMode \in { "Rigid", "Similarity", "Warping" }
         /\ outputClass \in { LinearTransformNode, GeneralTransformNode }
         /\ RegistrationMode \in { "Rigid", "Similarity" } =>
              /\ outputTransform.kind = "matrix"
              /\ outputTransform.mode = RegistrationMode
              /\ Count(trace, "SetMatrixTransformToParent") = 1
         /\ RegistrationMode = "Warping" =>
              /\ outputTransform.kind = "tps"
              /\ Count(trace, "SetAndObserveTransformToParent") = 1
              /\ outputClass = GeneralTransformNode

\* a Similarity recompute wrote its matrix into a general transform node
C11_Witness ==
  /\ Recomputed
  /\ Succeeded
  /\ RegistrationMode = "Similarity"
  /\ outputClass = GeneralTransformNode
  /\ outputTransform.kind = "matrix"
  /\ outputTransform.mode = "Similarity"

----------------------------------------------------------------------------
(* C12 *)

\* C12: a recompute of defined lists of equal size of at least 3 with a
\* defined output (no presence, count or degeneracy check fails on them) in a
\* mode that is not "Rigid", "Similarity" or "Warping" leaves the status
\* "Invalid transform type.", writes no output and computes no rms error.
C12_InvalidTransformType ==
  (/\ Recomputed
   /\ AllDefined
   /\ FromCount = ToCount
   /\ FromCount >= 3
   /\ RegistrationMode \notin { "Rigid", "Similarity", "Warping" }) =>
    /\ CalibrationStatusMessage = << "Invalid transform type." >>
    /\ OutputWrites = 0
    /\ Count(trace, "CalculateRegistrationError") = 0
    /\ Count(trace, "vtkLandmarkTransform::New") = 0
    /\ Count(trace, "vtkThinPlateSplineTransform::New") = 0

\* a recompute in mode "Affine" of two general lists of 4 points, while the
\* status still was the success of an earlier recompute
C12_Witness ==
  /\ Recomputed
  /\ AllDefined
  /\ FromCount = 4
  /\ ToCount = 4
  /\ ~IsCollinear(fromList.pts)
  /\ ~IsCollinear(toList.pts)
  /\ RegistrationMode = "Affine"
  /\ Count(trace, ModifiedEvent) = 1
  /\ outputTransform.kind = "matrix"

----------------------------------------------------------------------------
(* C13 *)

\* C13: an explicit recompute that directly follows a recompute of the same
\* node (nothing was changed in between) leaves the status message and the
\* output transform of the first one; and the status an explicit recompute
\* leaves is the one the same inputs give on a node without a status.
C13_RecomputeIsIdempotent ==
  [][ (/\ trace' # << >>
       /\ trace'[1] = "UpdateCalibration"
       /\ Recomputed') =>
        /\ CalibrationStatusMessage' =
             UpdateCalibration([Node EXCEPT !.status = << >>], "frwNode").status
        /\ Recomputed =>
             /\ CalibrationStatusMessage' = CalibrationStatusMessage
             /\ outputTransform' = outputTransform ]_vars

\* an explicit recompute rewrote the output and set the success status the
\* node already had (the status write raised no ModifiedEvent)
C13_Witness ==
  /\ trace # << >>
  /\ trace[1] = "UpdateCalibration"
  /\ Recomputed
  /\ Succeeded
  /\ OutputWrites = 1
  /\ StatusSets = 1
  /\ Count(trace, ModifiedEvent) = 0

----------------------------------------------------------------------------
(* C14 *)

\* C14: GetOutputMessage changes nothing of the node, the lists, the output
\* or the observations; it returns the empty string when the id resolves to
\* no configuration node and the node's status message otherwise; and the
\* status message changes only in a handler that recomputed the node.
C14_GetOutputMessage ==
  [][ /\ (trace' # << >> /\ trace'[1] = "GetOutputMessage") =>
           /\ UNCHANGED << fromList, toList, outputClass, outputTransform,
                           RegistrationMode, UpdateMode, CalibrationStatusMessage,
                           observers >>
           /\ Count(trace', "GetOutputMessage failed: node not found") = 1 =>
                returned' = << >>
           /\ Count(trace', "GetOutputMessage failed: node not found") = 0 =>
                returned' = CalibrationStatusMessage
      /\ CalibrationStatusMessage' # CalibrationStatusMessage => Recomputed' ]_vars

\* GetOutputMessage returned the success status of an earlier recompute
C14_Witness ==
  /\ trace = << "GetOutputMessage" >>
  /\ Succeeded
  /\ returned = CalibrationStatusMessage

----------------------------------------------------------------------------
(* C15 *)

----------------------------------------------------------------------------
(* C16 *)

\* the rms error the last handler computed, from the lists and the transform
\* it left in the node
LastRegistrationError ==
  CalculateRegistrationError(fromList.pts, toList.pts, outputTransform)

\* C16: a handler reaches CalculateRegistrationError only with both lists
\* defined and of the same size, which is at least 3: the loop over the To
\* points never reads past the end of the transformed From points, and the
\* mean it reports divides by that size, never by zero.
C16_ErrorOnlyOverEqualSizes ==
  Count(trace, "CalculateRegistrationError") >= 1 =>
    /\ AllDefined
    /\ FromCount = ToCount
    /\ FromCount >= 3
    /\ ~LastRegistrationError.readPastEnd
    /\ LastRegistrationError.n >= 3
    /\ Len(TransformPoints(outputTransform, fromList.pts)) = LastRegistrationError.n
    /\ CalibrationStatusMessage = MsgSuccess(LastRegistrationError)

\* the error is computed over two different lists of 3 points each
C16_Witness ==
  /\ Count(trace, "CalculateRegistrationError") = 1
  /\ AllDefined
  /\ FromCount = 3
  /\ ToCount = 3
  /\ fromList.pts # toList.pts
  /\ CalibrationStatusMessage = MsgSuccess(LastRegistrationError)

----------------------------------------------------------------------------
(* C17 *)

\* the step is an UpdateCalibration on the configuration node that ends
\* without a success status
FailingRecompute ==
  /\ Recomputed'
  /\ Count(trace', "CalculateRegistrationError") = 0
  /\ ~Succeeded'

\* C17: an UpdateCalibration that fails (in its validation, for Warping into
\* a linear output, or for an invalid mode) writes no transform: the output
\* keeps the transform it held before the call, also when that is the
\* transform of an earlier success; of the node only the status changes.
C17_FailureKeepsTransform ==
  [][FailingRecompute =>
       /\ outputTransform' = outputTransform
       /\ OutputWrites' = 0
       /\ CalibrationStatusMessage' \in FailureMessages'
       /\ fromList' = fromList
       /\ toList' = toList
       /\ outputClass' = outputClass
       /\ RegistrationMode' = RegistrationMode
       /\ UpdateMode' = UpdateMode]_vars

\* a success, then a From list that is too short: the failure status stands
\* next to the matrix of the earlier success
C17_Witness ==
  /\ Recomputed
  /\ CalibrationStatusMessage = MsgFromTooFew
  /\ outputTransform.kind = "matrix"
  /\ Len(outputTransform.source) >= 3
  /\ FromCount < 3

----------------------------------------------------------------------------
(* C18 *)

\* C18: a handler that runs UpdateCalibration on the configuration node
\* leaves the From list, the To list, the class of the output, the
\* registration mode and the update mode as they were, whether it succeeds or
\* fails; the output transform is written exactly when the call succeeds, and
\* an explicit call leaves the observers as they were too.
C18_RecomputeFrame ==
  [][Recomputed' =>
       /\ fromList' = fromList
       /\ toList' = toList
       /\ outputClass' = outputClass
       /\ RegistrationMode' = RegistrationMode
       /\ UpdateMode' = UpdateMode
       /\ (OutputWrites' = 1) = (Count(trace', "CalculateRegistrationError") = 1)
       /\ OutputWrites' = 0 => outputTransform' = outputTransform
       /\ trace'[1] = "UpdateCalibration" => observers' = observers]_vars

\* an input change recomputed a spline from two different lists of 3 points,
\* which the node still holds
C18_Witness ==
  /\ Recomputed
  /\ trace[1] = InputDataModifiedEvent
  /\ RegistrationMode = "Warping"
  /\ UpdateMode = "Automatic"
  /\ outputTransform.kind = "tps"
  /\ outputTransform.source = fromList.pts
  /\ outputTransform.target = toList.pts
  /\ FromCount = 3
  /\ fromList.pts # toList.pts

----------------------------------------------------------------------------
(* C19 *)

\* the last handler was the addition of the configuration node to the scene
ConfigurationNodeAdded ==
  /\ trace # << >>
  /\ trace[1] = "OnMRMLSceneNodeAdded"
  /\ Count(trace, ModuleNodeAdded) = 1

\* C19: after the configuration node was added to the scene the logic
\* observes it; if its update mode is "Automatic" the handler ran
\* UpdateCalibration on it once, with no InputDataModifiedEvent invoked, and
\* in every other update mode the handler ran no UpdateCalibration.
C19_AddedNodeIsObservedAndRecomputed ==
  ConfigurationNodeAdded =>
    /\ observed
    /\ Count(trace, InputDataModifiedEvent) = 0
    /\ UpdateMode = "Automatic" =>
         /\ Recomputed
         /\ Count(trace, "UpdateCalibration") = 1
         /\ StatusSets = 1
         /\ Position(trace, ModuleNodeAdded) < Position(trace, "UpdateCalibration")
    /\ UpdateMode # "Automatic" =>
         /\ Count(trace, "UpdateCalibration") = 0
         /\ StatusSets = 0

\* the node is added in Automatic mode with a valid request and is recomputed
C19_Witness ==
  /\ ConfigurationNodeAdded
  /\ UpdateMode = "Automatic"
  /\ Recomputed
  /\ Succeeded
  /\ OutputWrites = 1
  /\ observed

----------------------------------------------------------------------------
(* C20 *)

\* the last handler was the node invoking InputDataModifiedEvent
InputDataModified == trace # << >> /\ trace[1] = InputDataModifiedEvent

\* C20: the removal of the configuration node from the scene leaves it with
\* no observer and its addition with exactly one, however often it was added
\* before; an InputDataModifiedEvent of the node reaches the logic once when
\* the node is observed and not at all when it is not, so it recomputes once
\* if the node is observed and in "Automatic" mode, and never otherwise.
C20_RecomputeOnlyWhileObserved ==
  /\ Count(trace, ModuleNodeRemoved) = 1 => observers = 0
  /\ Count(trace, ModuleNodeAdded) = 1 => observers = 1
  /\ InputDataModified =>
       /\ Count(trace, "ProcessMRMLNodesEvents") >= (IF observed THEN 1 ELSE 0)
       /\ ~observed => trace = << InputDataModifiedEvent >>
       /\ Count(trace, "UpdateCalibration") =
            (IF observed /\ UpdateMode = "Automatic" THEN 1 ELSE 0)

\* an input change of a node in Automatic mode that holds the result of an
\* earlier recompute and is not observed: nothing is recomputed
C20_Witness ==
  /\ trace = << InputDataModifiedEvent >>
  /\ UpdateMode = "Automatic"
  /\ observers = 0
  /\ Succeeded
  /\ outputTransform.kind # "none"

----------------------------------------------------------------------------
(* C21 *)

\* the list new is the list old with one fiducial more, placed last, at one
\* of the positions of the probe
AppendedOne(old, new) ==
  /\ new.defined
  /\ old.defined
  /\ Len(new.pts) = Len(old.pts) + 1
  /\ SubSeq(new.pts, 1, Len(old.pts)) = old.pts
  /\ new.pts[Len(new.pts)] \in ProbePositions

\* C21: AddFiducial with a valid probe transform and one of the lists
\* appends one fiducial to the end of that list, keeps its earlier fiducials
\* in their order and leaves the other list as it was; with a NULL probe
\* transform, a NULL list or no active list it reports the failure and
\* changes neither list. It never runs UpdateCalibration: the status, the
\* output transform and the modes of the node stay as they were.
C21_AddFiducialAppendsOne ==
  [][(trace' # << >> /\ trace'[1] = "AddFiducial") =>
       LET validProbe == Count(trace', "probeTransformNode: valid") >= 1
           intoFrom == validProbe /\ Count(trace', "fiducialNode: from") = 1
           intoTo == validProbe /\ Count(trace', "fiducialNode: to") = 1
           failures == Count(trace', InvalidTransform)
                         + Count(trace', InvalidFiducialNode)
                         + Count(trace', NoActiveList)
       IN /\ Count(trace', "UpdateCalibration") = 0
          /\ StatusSets' = 0
          /\ OutputWrites' = 0
          /\ CalibrationStatusMessage' = CalibrationStatusMessage
          /\ outputTransform' = outputTransform
          /\ outputClass' = outputClass
          /\ RegistrationMode' = RegistrationMode
          /\ UpdateMode' = UpdateMode
          /\ observers' = observers
          /\ ~(intoFrom /\ intoTo)
          /\ intoFrom => AppendedOne(fromList, fromList') /\ toList' = toList
          /\ intoTo => AppendedOne(toList, toList') /\ fromList' = fromList
          /\ (intoFrom \/ intoTo) =>
               failures = 0 /\ Count(trace', "AddFiducialFromArray") = 1
          /\ ~(intoFrom \/ intoTo) =>
               /\ fromList' = fromList
               /\ toList' = toList
               /\ failures = 1
               /\ Count(trace', "AddFiducialFromArray") = 0]_vars

\* a third fiducial was added to the To list, after two others and away from
\* the second, while the node still shows the status of the recompute that
\* found the To list too short
C21_Witness ==
  /\ trace # << >>
  /\ trace[1] = "AddFiducial"
  /\ Count(trace, "fiducialNode: to") = 1
  /\ Count(trace, "AddFiducialFromArray") = 1
  /\ FromCount = 3
  /\ ToCount = 3
  /\ toList.pts[3] # toList.pts[2]
  /\ CalibrationStatusMessage = MsgToTooFew

====
